---- MODULE Spec2Model ----
(***************************************************************************)
(* SeqHasher: the record pipeline of processSequences and the hash         *)
(* registry getHashFunc (version 1.1.1).                                   *)
(*                                                                         *)
(* A byte is an integer 0..255 and every Go string or []byte is a sequence *)
(* of bytes, so that the composed header and the output stream can be      *)
(* compared character by character.                                        *)
(***************************************************************************)
EXTENDS Integers, Sequences, FiniteSets, TLC

VARIABLES
    args,           \* the command line: the flags and the two file names
    opened,         \* the calls of getInput and getOutput and how they ended
    callerCfg,      \* the config value the caller passes to processSequences
    pc,             \* position: run, then start, loop, done of processSequences
    cfg,            \* processSequences' own copy of the config (passed by value)
    inputFileName,  \* local: the resolved source name
    hashFuncs,      \* local: one closure per configured hash type (its hashType)
    nread,          \* number of reader.Read() calls that returned a record
    consumed,       \* the records reader.Read() returned so far, in order
    record,         \* local: the record of the current loop iteration
    seq,            \* local: the normalized sequence of the current iteration
    hashedSeqs,     \* local: the digests of the current iteration
    modifiedHeader, \* local: the composed header of the current iteration
    writer,         \* the bufio.Writer: buffered bytes and its sticky error
    output,         \* bytes that reached the underlying io.Writer
    log,            \* messages written with log.Printf
    err,            \* the error run or processSequences returned
    errText         \* the message of the error parseFlags composed

vars == <<args, opened, callerCfg, pc, cfg, inputFileName, hashFuncs, nread, consumed,
          record, seq, hashedSeqs, modifiedHeader, writer, output, log, err, errText>>

-----------------------------------------------------------------------------
(* Bounds of the model *)

\* longest stream of records the parser delivers
MaxRecords == 2
\* longest raw sequence of a record in the normalization runs
MaxSeqLen == 3
\* capacity of the bufio.Writer, scaled down from the library's 4096 so that a
\* run of MaxRecords records fills it
BufSize == 64

-----------------------------------------------------------------------------
(* Bytes and text *)

\* the ASCII characters the program writes itself
ch == [semi |-> 59, nl |-> 10, gt |-> 62, at |-> 64, plus |-> 43,
       slash |-> 47, dot |-> 46, dash |-> 45, comma |-> 44, sp |-> 32]

\* utf8.RuneSelf and utf8.RuneError of the Go library
utf8 == [RuneSelf |-> 128, RuneError |-> 65533]

RECURSIVE Concat(_)
\* concatenation of a sequence of byte strings
Concat(ss) == IF ss = <<>> THEN <<>> ELSE Head(ss) \o Concat(Tail(ss))

RECURSIVE JoinWith(_, _)
\* strings.Join / bytes.Join: the elements of ss separated by sep
JoinWith(ss, sep) ==
    IF ss = <<>> THEN <<>>
    ELSE IF Len(ss) = 1 THEN ss[1]
    ELSE ss[1] \o sep \o JoinWith(Tail(ss), sep)

InRange(b, lo, hi) == lo <= b /\ b <= hi

\* utf8.DecodeRune on a non-empty byte string: the rune and its width.
\* An ill-formed or truncated encoding decodes to RuneError with width 1.
DecodeRune(p) ==
    LET n == Len(p)
        p0 == p[1]
        bad == [r |-> utf8.RuneError, size |-> 1]
        cont(i) == n >= i /\ InRange(p[i], 128, 191)
    IN  IF p0 < utf8.RuneSelf THEN [r |-> p0, size |-> 1]
        ELSE IF InRange(p0, 194, 223) THEN
            IF cont(2) THEN [r |-> (p0 - 192) * 64 + (p[2] - 128), size |-> 2]
            ELSE bad
        ELSE IF InRange(p0, 224, 239) THEN
            LET lo == IF p0 = 224 THEN 160 ELSE 128
                hi == IF p0 = 237 THEN 159 ELSE 191
            IN  IF n >= 2 /\ InRange(p[2], lo, hi) /\ cont(3)
                THEN [r |-> (p0 - 224) * 4096 + (p[2] - 128) * 64 + (p[3] - 128),
                      size |-> 3]
                ELSE bad
        ELSE IF InRange(p0, 240, 244) THEN
            LET lo == IF p0 = 240 THEN 144 ELSE 128
                hi == IF p0 = 244 THEN 143 ELSE 191
            IN  IF n >= 2 /\ InRange(p[2], lo, hi) /\ cont(3) /\ cont(4)
                THEN [r |-> (p0 - 240) * 262144 + (p[2] - 128) * 4096
                            + (p[3] - 128) * 64 + (p[4] - 128),
                      size |-> 4]
                ELSE bad
        ELSE bad

\* utf8.AppendRune: the UTF-8 encoding of a rune; surrogates and values out of
\* range are written as the encoding of RuneError
EncodeRune(r) ==
    IF r < 0 \/ InRange(r, 55296, 57343) \/ r > 1114111 THEN <<239, 191, 189>>
    ELSE IF r < 128 THEN <<r>>
    ELSE IF r < 2048 THEN <<192 + (r \div 64), 128 + (r % 64)>>
    ELSE IF r < 65536 THEN
        <<224 + (r \div 4096), 128 + ((r \div 64) % 64), 128 + (r % 64)>>
    ELSE <<240 + (r \div 262144), 128 + ((r \div 4096) % 64),
           128 + ((r \div 64) % 64), 128 + (r % 64)>>

\* unicode.IsSpace: Unicode's White Space property
IsSpace(r) ==
    \/ r \in {9, 10, 11, 12, 13, 32, 133, 160}
    \/ r \in {5760, 8232, 8233, 8239, 8287, 12288}
    \/ InRange(r, 8192, 8202)

\* unicode.ToUpper for the runes up to U+00FF and for U+FFFD; the byte
\* alphabets of this model decode to no other rune
ToUpperRune(r) ==
    IF InRange(r, 97, 122) THEN r - 32
    ELSE IF r = 181 THEN 924
    ELSE IF InRange(r, 224, 254) /\ r # 247 THEN r - 32
    ELSE IF r = 255 THEN 376
    ELSE r

RECURSIVE FieldsFrom(_, _, _, _)
\* bytes.FieldsFunc(s, unicode.IsSpace) from byte i on: cur is the field being
\* read, acc the fields already closed
FieldsFrom(s, i, cur, acc) ==
    LET closed == IF cur = <<>> THEN acc ELSE Append(acc, cur)
    IN  IF i > Len(s) THEN closed
        ELSE LET d == DecodeRune(SubSeq(s, i, Len(s)))
             IN  IF IsSpace(d.r)
                 THEN FieldsFrom(s, i + d.size, <<>>, closed)
                 ELSE FieldsFrom(s, i + d.size,
                                 cur \o SubSeq(s, i, i + d.size - 1), acc)

\* bytes.Fields: the maximal runs of non-whitespace of s, in order
Fields(s) == FieldsFrom(s, 1, <<>>, <<>>)

RECURSIVE MapUpper(_, _)
\* bytes.Map(unicode.ToUpper, s) from byte i on: every rune is decoded, mapped
\* and encoded again, so an ill-formed byte comes out as EF BF BD
MapUpper(s, i) ==
    IF i > Len(s) THEN <<>>
    ELSE LET d == DecodeRune(SubSeq(s, i, Len(s)))
         IN  EncodeRune(ToUpperRune(d.r)) \o MapUpper(s, i + d.size)

\* bytes.ToUpper: byte-wise on pure ASCII, rune-wise otherwise
ToUpper(s) ==
    IF \A i \in 1..Len(s) : s[i] < utf8.RuneSelf
    THEN [i \in 1..Len(s) |-> IF InRange(s[i], 97, 122) THEN s[i] - 32 ELSE s[i]]
    ELSE MapUpper(s, 1)

\* filepath.Base: the last element of a path, trailing slashes removed
Base(path) ==
    IF path = <<>> THEN <<ch.dot>>
    ELSE LET keep == {i \in 1..Len(path) : path[i] # ch.slash}
         IN  IF keep = {} THEN <<ch.slash>>
             ELSE LET last == CHOOSE i \in keep : \A j \in keep : j <= i
                      seps == {i \in 1..last : path[i] = ch.slash}
                      from == IF seps = {} THEN 1
                              ELSE 1 + CHOOSE i \in seps : \A j \in seps : j <= i
                  IN  SubSeq(path, from, last)

-----------------------------------------------------------------------------
(* The hash registry *)

\* "sha1", "sha3", "md5", "xxhash", "cityhash", "murmur3", "nthash", "blake3"
hn == [sha1     |-> <<115, 104, 97, 49>>,
       sha3     |-> <<115, 104, 97, 51>>,
       md5      |-> <<109, 100, 53>>,
       xxhash   |-> <<120, 120, 104, 97, 115, 104>>,
       cityhash |-> <<99, 105, 116, 121, 104, 97, 115, 104>>,
       murmur3  |-> <<109, 117, 114, 109, 117, 114, 51>>,
       nthash   |-> <<110, 116, 104, 97, 115, 104>>,
       blake3   |-> <<98, 108, 97, 107, 101, 51>>]

supportedHashTypes ==
    <<hn.sha1, hn.sha3, hn.md5, hn.xxhash, hn.cityhash, hn.murmur3, hn.nthash,
      hn.blake3>>

RECURSIVE Weigh(_, _)
\* sum over j >= i of data[j] * j
Weigh(data, i) ==
    IF i > Len(data) THEN 0 ELSE data[i] * i + Weigh(data, i + 1)

RECURSIVE Total(_, _)
\* sum over j >= i of data[j]
Total(data, i) ==
    IF i > Len(data) THEN 0 ELSE data[i] + Total(data, i + 1)

\* The library primitives (sha1.Sum, sha3.Sum512, md5.Sum, xxhash.Sum64,
\* city.Hash128, murmur3.Sum128, ntHash, blake3.Sum256) are black boxes: each is
\* a total, deterministic function from bytes to a digest of n bytes.  Sum stands
\* for them: n bytes that depend on the primitive (salt) and on every byte of the
\* data and its position.
Sum(salt, n, data) ==
    LET a == Weigh(data, 1)
        b == Total(data, 1)
    IN  [i \in 1..n |-> (salt * i + a + i * b) % 256]

\* A 64-bit result as 8 bytes, most significant first.  The high bytes of a
\* small value are zero: here the top two bytes when the data has odd length.
Sum64(salt, data) ==
    LET b == Sum(salt, 8, data)
    IN  IF Len(data) % 2 = 1 THEN <<0, 0>> \o SubSeq(b, 3, 8) ELSE b

\* one digit of hex's "0123456789abcdef"
HexDigit(d) == IF d < 10 THEN 48 + d ELSE 87 + d

\* hex.EncodeToString: two lowercase hex digits per byte
EncodeToString(bs) ==
    [i \in 1..(2 * Len(bs)) |->
        LET b == bs[(i + 1) \div 2]
        IN  HexDigit(IF i % 2 = 1 THEN b \div 16 ELSE b % 16)]

RECURSIVE DropZeros(_)
\* the digits of a number without its leading zeros; "0" for zero
DropZeros(ds) ==
    IF Len(ds) > 1 /\ Head(ds) = 48 THEN DropZeros(Tail(ds)) ELSE ds

\* Sprintf016x without the padding, as "%x" formats
SprintfX(v) == DropZeros(EncodeToString(v))

\* fmt.Sprintf("%016x", v) for the uint64 v given as 8 bytes: the hex digits
\* of the value, padded on the left with zeros to 16 characters
Sprintf016x(v) ==
    LET digits == DropZeros(EncodeToString(v))
    IN  [i \in 1..(16 - Len(digits)) |-> 48] \o digits

\* nthash.NewHasher(&data, k) refuses a window longer than the data
NewHasherFails(data, k) == k > Len(data)

\* getHashFunc without the test for empty data: the primitive digests it
getHashFuncOfEmpty(hashType, data) ==
    [log |-> FALSE, hex |->
        IF hashType = hn.xxhash THEN Sprintf016x(Sum64(7, data))
        ELSE EncodeToString(Sum(1, 20, data))]

\* getHashFunc(hashType)(data); log is TRUE when the call logs a message
getHashFunc(hashType, data) ==
    IF Len(data) = 0 THEN [hex |-> <<>>, log |-> TRUE]
    ELSE IF hashType = hn.nthash /\ NewHasherFails(data, Len(data))
    THEN [hex |-> <<>>, log |-> TRUE]
    ELSE [log |-> FALSE, hex |->
        CASE hashType = hn.sha1 -> EncodeToString(Sum(1, 20, data))
          [] hashType = hn.sha3 -> EncodeToString(Sum(3, 64, data))
          [] hashType = hn.md5 -> EncodeToString(Sum(5, 16, data))
          [] hashType = hn.xxhash -> Sprintf016x(Sum64(7, data))
          [] hashType = hn.cityhash ->
                Sprintf016x(Sum64(11, data)) \o Sprintf016x(Sum64(13, data))
          [] hashType = hn.murmur3 ->
                Sprintf016x(Sum64(17, data)) \o Sprintf016x(Sum64(19, data))
          [] hashType = hn.nthash -> Sprintf016x(Sum64(23, data))
          [] hashType = hn.blake3 -> EncodeToString(Sum(29, 32, data))
          [] OTHER -> EncodeToString(Sum(1, 20, data))]

-----------------------------------------------------------------------------
(* Flag parsing: the hash list of a configuration *)

RECURSIVE Split(_, _)
\* strings.Split(s, sep) for a one-byte separator
Split(s, sep) ==
    LET at == {i \in 1..Len(s) : s[i] = sep}
    IN  IF at = {} THEN <<s>>
        ELSE LET i == CHOOSE k \in at : \A j \in at : k <= j
             IN  <<SubSeq(s, 1, i - 1)>> \o Split(SubSeq(s, i + 1, Len(s)), sep)

RECURSIVE TrimSpace(_)
\* strings.TrimSpace on ASCII text: leading and trailing whitespace removed
TrimSpace(s) ==
    IF s = <<>> THEN s
    ELSE IF IsSpace(s[1]) THEN TrimSpace(Tail(s))
    ELSE IF IsSpace(s[Len(s)]) THEN TrimSpace(SubSeq(s, 1, Len(s) - 1))
    ELSE s

isValidHashType(hashType) ==
    \E i \in 1..Len(supportedHashTypes) : hashType = supportedHashTypes[i]

\* the texts of the error of parseFlags: "Invalid hash type: ",
\* ". Supported types are: " and the separator ", "
msg == [invalid |-> <<73, 110, 118, 97, 108, 105, 100, 32, 104, 97, 115, 104, 32, 116, 121, 112, 101, 58, 32>>,
        supported |-> <<46, 32, 83, 117, 112, 112, 111, 114, 116, 101, 100, 32, 116, 121, 112, 101, 115, 32, 97, 114, 101, 58, 32>>,
        sep |-> <<ch.comma, ch.sp>>]

\* parseFlags that validates the first entry of the list only
parseFlagsFirstOnly(hashTypesString) ==
    LET hts == Split(hashTypesString, ch.comma)
    IN  IF ~isValidHashType(TrimSpace(hts[1]))
        THEN [ok |-> FALSE, hashTypes |-> <<>>,
              err |-> msg.invalid \o hts[1] \o msg.supported
                          \o JoinWith(supportedHashTypes, msg.sep)]
        ELSE [ok |-> TRUE, hashTypes |-> hts, err |-> <<>>]

\* the hash part of parseFlags: the list as split, each entry validated after
\* trimming; the first entry that fails is reported as it was written
parseFlags(hashTypesString) ==
    LET hts == Split(hashTypesString, ch.comma)
        bad == {i \in 1..Len(hts) : ~isValidHashType(TrimSpace(hts[i]))}
    IN  IF bad # {}
        THEN LET i == CHOOSE k \in bad : \A j \in bad : k <= j
             IN  [ok |-> FALSE, hashTypes |-> <<>>,
                  err |-> msg.invalid \o hts[i] \o msg.supported
                              \o JoinWith(supportedHashTypes, msg.sep)]
        ELSE [ok |-> TRUE, hashTypes |-> hts, err |-> <<>>]

-----------------------------------------------------------------------------
(* The inputs the runs are drawn from *)

\* command-line texts: "-", "d/a.gz", "N", "o"
txt == [stdin |-> <<45>>, path |-> <<100, 47, 97, 46, 103, 122>>, name |-> <<78>>,
        out |-> <<111>>]

\* values of --hash: "sha1", "sha1,xxhash", "sha1, xxhash", "nthash,md5"
HashStrings ==
    { hn.sha1,
      hn.sha1 \o <<ch.comma>> \o hn.xxhash,
      hn.sha1 \o <<ch.comma, ch.sp>> \o hn.xxhash,
      hn.nthash \o <<ch.comma>> \o hn.md5 }

\* the hash lists parseFlags returns for them
HashLists == {parseFlags(h).hashTypes : h \in {x \in HashStrings : parseFlags(x).ok}}

\* the config struct
Config(ho, hts, nfn, cs, inName, override) ==
    [headersOnly |-> ho, hashTypes |-> hts, noFileName |-> nfn,
     caseSensitive |-> cs, inputFileName |-> inName, outputFileName |-> <<>>,
     nameOverride |-> override, showVersion |-> FALSE]

Configs ==
    { Config(ho, hts, nfn, cs, inName, override) :
        ho \in BOOLEAN, hts \in HashLists, nfn \in BOOLEAN, cs \in BOOLEAN,
        inName \in {txt.stdin, txt.path}, override \in {<<>>, txt.name} }

\* the command line: the flags and the positional arguments of parseFlags
Args(hash, ho, nfn, cs, name, version, inName, outName) ==
    [hash |-> hash, headersOnly |-> ho, noFileName |-> nfn, caseSensitive |-> cs,
     name |-> name, version |-> version, input |-> inName, output |-> outName]

\* the command line that parseFlags turns into the config c
ArgsOf(c) ==
    Args(JoinWith(c.hashTypes, <<ch.comma>>), c.headersOnly, c.noFileName,
         c.caseSensitive, c.nameOverride, c.showVersion, c.inputFileName,
         c.outputFileName)

\* values of --hash with an entry outside the supported set: "invalid,sha1",
\* "sha1,invalid", "sha1,,md5", "sha1, sha9,bad"
BadHashStrings ==
    { <<105, 110, 118, 97, 108, 105, 100>> \o <<ch.comma>> \o hn.sha1,
      hn.sha1 \o <<ch.comma>> \o <<105, 110, 118, 97, 108, 105, 100>>,
      hn.sha1 \o <<ch.comma, ch.comma>> \o hn.md5,
      hn.sha1 \o <<ch.comma, ch.sp>> \o <<115, 104, 97, 57>> \o <<ch.comma>> \o <<98, 97, 100>> }

\* values of --hash with the other algorithms: "sha3,cityhash",
\* "murmur3,blake3"
MoreHashStrings ==
    { hn.sha3 \o <<ch.comma>> \o hn.cityhash,
      hn.murmur3 \o <<ch.comma>> \o hn.blake3 }

\* the command lines of the runs of run(): valid and invalid hash lists, with
\* and without --version, no input name, stdin or a file, stdout or a file
RunArgs ==
    { Args(hash, FALSE, FALSE, FALSE, <<>>, version, inName, outName) :
        hash \in HashStrings \cup MoreHashStrings \cup BadHashStrings,
        version \in BOOLEAN, inName \in {<<>>, txt.stdin, txt.path},
        outName \in {<<>>, txt.stdin, txt.out} }

\* a fastx record: Name is the header line, Seq.Seq the residues, Seq.Qual the
\* qualities (empty for FASTA)
Record(name, residues, qual) ==
    [Name |-> name, Seq |-> [Seq |-> residues, Qual |-> qual]]

NoRecord == Record(<<>>, <<>>, <<>>)

\* the ID of a record as fastx.DefaultIDRegexp takes it from the header line:
\* the characters before the first whitespace
ID(name) ==
    LET ws == {i \in 1..Len(name) : IsSpace(name[i])}
    IN  IF ws = {} THEN name
        ELSE SubSeq(name, 1, (CHOOSE i \in ws : \A j \in ws : i <= j) - 1)

\* a FASTA record whose header line "a;b c" has a ';' and a description
DescribedRecords == { Record(<<97, 59, 98, 32, 99>>, <<65>>, <<>>) }

\* FASTA records "s1" with sequence "", "A", "a", "a A" and the FASTQ record
\* "q" with sequence "Aa" and qualities "IJ"
Records ==
    { Record(<<115, 49>>, s, <<>>) : s \in {<<>>, <<65>>, <<97>>, <<97, 32, 65>>} }
    \cup { Record(<<113>>, <<65, 97>>, <<73, 74>>) }

\* bytes of the raw sequences of the normalization runs: 'A', 'a', space, tab,
\* newline, and 0xC2, 0x85, 0xA0, which make up NEL (C2 85), NBSP (C2 A0) and
\* ill-formed UTF-8
NormBytes == {65, 97, 32, 9, 10, 194, 133, 160}

RECURSIVE SeqsUpTo(_, _)
\* every byte string over S of length at most n
SeqsUpTo(S, n) ==
    IF n = 0 THEN {<<>>}
    ELSE LET shorter == SeqsUpTo(S, n - 1)
         IN  shorter \cup {Append(x, b) : x \in shorter, b \in S}

NormRecords == { Record(<<115, 49>>, s, <<>>) : s \in SeqsUpTo(NormBytes, MaxSeqLen) }

\* configurations of the normalization runs: a byte-array digest, a 64-bit
\* digest and ntHash, with and without case folding
NormConfigs ==
    { Config(FALSE, <<hn.sha1, hn.xxhash, hn.nthash>>, TRUE, cs, txt.path, <<>>) :
        cs \in BOOLEAN }

-----------------------------------------------------------------------------
(* bufio.Writer *)

\* Writer.Flush; sinkOK tells whether the underlying Write succeeds.  A failed
\* Write takes no byte and the error sticks to the writer.
Flush(w, out, sinkOK) ==
    IF w.err \/ w.buf = <<>> THEN [w |-> w, out |-> out]
    ELSE IF ~sinkOK THEN [w |-> [w EXCEPT !.err = TRUE], out |-> out]
    ELSE [w |-> [w EXCEPT !.buf = <<>>], out |-> out \o w.buf]

RECURSIVE Write(_, _, _, _, _)
\* Writer.Write(p): while p does not fit, either hand p to the underlying writer
\* (empty buffer) or fill the buffer and flush it.  f is the number of the
\* underlying Write of this call that fails (0: none), k counts them.
Write(w, out, p, f, k) ==
    IF Len(p) > BufSize - Len(w.buf) /\ ~w.err THEN
        IF w.buf = <<>> THEN
            IF f = k + 1 THEN [w |-> [w EXCEPT !.err = TRUE], out |-> out]
            ELSE Write(w, out \o p, <<>>, f, k + 1)
        ELSE LET n == BufSize - Len(w.buf)
                 fl == Flush([w EXCEPT !.buf = @ \o SubSeq(p, 1, n)], out, f # k + 1)
             IN  Write(fl.w, fl.out, SubSeq(p, n + 1, Len(p)), f, k + 1)
    ELSE IF w.err THEN [w |-> w, out |-> out]
    ELSE [w |-> [w EXCEPT !.buf = @ \o p], out |-> out]

-----------------------------------------------------------------------------
(* processSequences *)

errs == [none |-> "nil", flags |-> "Invalid hash type",
         input |-> "Error opening input", output |-> "Error opening output",
         reader |-> "Failed to create reader",
         read |-> "Error reading record", header |-> "Error writing header",
         rec |-> "Error writing record", flush |-> "write error"]

\* the state at the call processSequences(input, output, cfg)
InitWith(C) ==
    /\ callerCfg \in C
    /\ args = ArgsOf(callerCfg)
    /\ opened = <<"input">>
    /\ errText = <<>>
    /\ cfg = callerCfg
    /\ pc = "start"
    /\ inputFileName = <<>>
    /\ hashFuncs = <<>>
    /\ nread = 0
    /\ consumed = <<>>
    /\ record = NoRecord
    /\ seq = <<>>
    /\ hashedSeqs = <<>>
    /\ modifiedHeader = <<>>
    /\ writer = [buf |-> <<>>, err |-> FALSE]
    /\ output = <<>>
    /\ log = <<>>
    /\ err = errs.none

Init == InitWith(Configs)

\* ResolveName that keeps the directories of the path
ResolveNameNoBase(c) ==
    IF c.nameOverride # <<>> THEN c.nameOverride ELSE c.inputFileName

\* the second resolution of the source name (after the reader is created)
ResolveName(c) ==
    IF c.nameOverride # <<>> THEN c.nameOverride
    ELSE IF c.inputFileName # txt.stdin THEN Base(c.inputFileName)
    ELSE c.inputFileName

\* SkipStdinName in which a name override switches the file name on
SkipStdinNameOverrideWins(c) ==
    IF c.nameOverride # <<>> THEN [c EXCEPT !.noFileName = FALSE]
    ELSE IF c.inputFileName = txt.stdin THEN [c EXCEPT !.noFileName = TRUE]
    ELSE c

\* SkipStdinName that never drops the file name
SkipStdinNameNever(c) == c

\* the first resolution: the copy of the config with the file name dropped for
\* stdin unless a name is given
SkipStdinName(c) ==
    IF c.nameOverride = <<>> /\ c.inputFileName = txt.stdin
    THEN [c EXCEPT !.noFileName = TRUE]
    ELSE c

\* the error of a failed fastx.NewReaderFromIO as processSequences wraps it:
\* "Failed to create reader: fastx: invalid FASTA/Q format"
readerErr == [text |-> <<70, 97, 105, 108, 101, 100, 32, 116, 111, 32, 99, 114, 101, 97, 116, 101, 32, 114, 101, 97, 100, 101, 114, 58, 32, 102, 97, 115, 116, 120, 58, 32, 105, 110, 118, 97, 108, 105, 100, 32, 70, 65, 83, 84, 65, 47, 81, 32, 102, 111, 114, 109, 97, 116>>]

\* Setup that notes the failure of the reader and goes on into the loop
SetupFallsThrough(readerOK) ==
    /\ pc = "start"
    /\ cfg' = SkipStdinName(cfg)
    /\ inputFileName' = ResolveName(cfg)
    /\ hashFuncs' = cfg.hashTypes
    /\ pc' = "loop"
    /\ err' = IF readerOK THEN err ELSE errs.reader
    /\ errText' = IF readerOK THEN errText ELSE readerErr.text
    /\ UNCHANGED <<args, opened, callerCfg, nread, consumed, record, seq, hashedSeqs,
                   modifiedHeader, writer, output, log>>

\* From the entry to the top of the loop: the writer, the name, the reader and
\* the hash functions.  readerOK: fastx accepts the input as FASTA/Q.  On its
\* failure the function returns; the deferred Flush finds an empty buffer.
Setup(readerOK) ==
    /\ pc = "start"
    /\ cfg' = SkipStdinName(cfg)
    /\ IF readerOK
       THEN /\ inputFileName' = ResolveName(cfg)
            /\ hashFuncs' = cfg.hashTypes
            /\ pc' = "loop"
            /\ err' = err
            /\ errText' = errText
       ELSE /\ inputFileName' =
                   IF cfg.nameOverride # <<>> THEN cfg.nameOverride
                   ELSE cfg.inputFileName
            /\ hashFuncs' = hashFuncs
            /\ pc' = "done"
            /\ err' = errs.reader
            /\ errText' = readerErr.text
    /\ UNCHANGED <<args, opened, callerCfg, nread, consumed, record, seq, hashedSeqs,
                   modifiedHeader, writer, output, log>>

\* Normalize with the case folding left out
NormalizeKeepCase(s, caseSensitive) == Concat(Fields(s))

\* Normalize with the case folding applied whatever the flag
NormalizeAlwaysUpper(s, caseSensitive) == ToUpper(Concat(Fields(s)))

\* the whitespace stripping and the case folding of the loop body
Normalize(s, caseSensitive) ==
    LET stripped == Concat(Fields(s))
    IN  IF ~caseSensitive THEN ToUpper(stripped) ELSE stripped

\* Header that ends with the ID of the record instead of its header line
HeaderWithID(noFileName, fileName, hashedSeq, name) ==
    IF noFileName THEN hashedSeq \o <<ch.semi>> \o ID(name)
    ELSE fileName \o <<ch.semi>> \o hashedSeq \o <<ch.semi>> \o ID(name)

\* Header that ignores noFileName
HeaderAlwaysNamed(noFileName, fileName, hashedSeq, name) ==
    fileName \o <<ch.semi>> \o hashedSeq \o <<ch.semi>> \o name

\* the new sequence header
Header(noFileName, fileName, hashedSeq, name) ==
    IF noFileName THEN hashedSeq \o <<ch.semi>> \o name
    ELSE fileName \o <<ch.semi>> \o hashedSeq \o <<ch.semi>> \o name

\* Printed that ignores headersOnly
PrintedFull(headersOnly, header, rec, s) ==
    <<ch.gt>> \o header \o <<ch.nl>> \o s \o <<ch.nl>>

\* Printed that writes the sequence as the parser delivered it
PrintedRaw(headersOnly, header, rec, s) ==
    IF headersOnly THEN header \o <<ch.nl>>
    ELSE <<ch.gt>> \o header \o <<ch.nl>> \o rec.Seq.Seq \o <<ch.nl>>

\* what one iteration prints to the writer
Printed(headersOnly, header, rec, s) ==
    IF headersOnly THEN header \o <<ch.nl>>
    ELSE <<ch.gt>> \o header \o <<ch.nl>> \o s \o <<ch.nl>>

\* ReadRecord that hashes the record's name together with its sequence
ReadRecordHashesName(rec, f) ==
    /\ pc = "loop"
    /\ nread < MaxRecords
    /\ LET s == Normalize(rec.Seq.Seq, cfg.caseSensitive)
           hs == [i \in 1..Len(hashFuncs) |-> getHashFunc(hashFuncs[i], rec.Name \o s)]
           hexes == [i \in 1..Len(hs) |-> hs[i].hex]
           header == Header(cfg.noFileName, inputFileName,
                            JoinWith(hexes, <<ch.semi>>), rec.Name)
           wr == Write(writer, output, Printed(cfg.headersOnly, header, rec, s), f, 0)
       IN  /\ nread' = nread + 1
           /\ consumed' = Append(consumed, rec)
           /\ record' = rec
           /\ seq' = s
           /\ hashedSeqs' = hexes
           /\ modifiedHeader' = header
           /\ log' = log \o SelectSeq([i \in 1..Len(hs) |->
                                          IF hs[i].log THEN "Error" ELSE ""],
                                      LAMBDA m : m # "")
           /\ writer' = wr.w
           /\ output' = wr.out
           /\ IF wr.w.err
              THEN /\ pc' = "done"
                   /\ err' = IF cfg.headersOnly THEN errs.header ELSE errs.rec
              ELSE /\ pc' = "loop"
                   /\ err' = err
    /\ UNCHANGED <<args, opened, errText, callerCfg, cfg, inputFileName, hashFuncs>>

\* ReadRecord that composes and writes the header before the record is hashed,
\* from the digests the iteration before left
ReadRecordEmitsFirst(rec, f) ==
    /\ pc = "loop"
    /\ nread < MaxRecords
    /\ LET s == Normalize(rec.Seq.Seq, cfg.caseSensitive)
           hs == [i \in 1..Len(hashFuncs) |-> getHashFunc(hashFuncs[i], s)]
           hexes == [i \in 1..Len(hs) |-> hs[i].hex]
           header == Header(cfg.noFileName, inputFileName,
                            JoinWith(hashedSeqs, <<ch.semi>>), rec.Name)
           wr == Write(writer, output, Printed(cfg.headersOnly, header, rec, s), f, 0)
       IN  /\ nread' = nread + 1
           /\ consumed' = Append(consumed, rec)
           /\ record' = rec
           /\ seq' = s
           /\ hashedSeqs' = hexes
           /\ modifiedHeader' = header
           /\ log' = log \o SelectSeq([i \in 1..Len(hs) |->
                                          IF hs[i].log THEN "Error" ELSE ""],
                                      LAMBDA m : m # "")
           /\ writer' = wr.w
           /\ output' = wr.out
           /\ IF wr.w.err
              THEN /\ pc' = "done"
                   /\ err' = IF cfg.headersOnly THEN errs.header ELSE errs.rec
              ELSE /\ pc' = "loop"
                   /\ err' = err
    /\ UNCHANGED <<args, opened, errText, callerCfg, cfg, inputFileName, hashFuncs>>

\* ReadRecord that drops the file name from the headers of the later records
ReadRecordSetsNoFileName(rec, f) ==
    /\ pc = "loop"
    /\ nread < MaxRecords
    /\ LET s == Normalize(rec.Seq.Seq, cfg.caseSensitive)
           hs == [i \in 1..Len(hashFuncs) |-> getHashFunc(hashFuncs[i], s)]
           hexes == [i \in 1..Len(hs) |-> hs[i].hex]
           header == Header(cfg.noFileName, inputFileName,
                            JoinWith(hexes, <<ch.semi>>), rec.Name)
           wr == Write(writer, output, Printed(cfg.headersOnly, header, rec, s), f, 0)
       IN  /\ nread' = nread + 1
           /\ consumed' = Append(consumed, rec)
           /\ record' = rec
           /\ seq' = s
           /\ hashedSeqs' = hexes
           /\ modifiedHeader' = header
           /\ log' = log \o SelectSeq([i \in 1..Len(hs) |->
                                          IF hs[i].log THEN "Error" ELSE ""],
                                      LAMBDA m : m # "")
           /\ writer' = wr.w
           /\ output' = wr.out
           /\ IF wr.w.err
              THEN /\ pc' = "done"
                   /\ err' = IF cfg.headersOnly THEN errs.header ELSE errs.rec
              ELSE /\ pc' = "loop"
                   /\ err' = err
    /\ cfg' = [cfg EXCEPT !.noFileName = TRUE]
    /\ UNCHANGED <<args, opened, errText, callerCfg, inputFileName, hashFuncs>>

\* ReadRecord that normalizes in the buffer of the parsed record
ReadRecordInPlace(rec, f) ==
    /\ pc = "loop"
    /\ nread < MaxRecords
    /\ LET s == Normalize(rec.Seq.Seq, cfg.caseSensitive)
           hs == [i \in 1..Len(hashFuncs) |-> getHashFunc(hashFuncs[i], s)]
           hexes == [i \in 1..Len(hs) |-> hs[i].hex]
           header == Header(cfg.noFileName, inputFileName,
                            JoinWith(hexes, <<ch.semi>>), rec.Name)
           wr == Write(writer, output, Printed(cfg.headersOnly, header, rec, s), f, 0)
       IN  /\ nread' = nread + 1
           /\ consumed' = Append(consumed, rec)
           /\ record' = [rec EXCEPT !.Seq.Seq = s]
           /\ seq' = s
           /\ hashedSeqs' = hexes
           /\ modifiedHeader' = header
           /\ log' = log \o SelectSeq([i \in 1..Len(hs) |->
                                          IF hs[i].log THEN "Error" ELSE ""],
                                      LAMBDA m : m # "")
           /\ writer' = wr.w
           /\ output' = wr.out
           /\ IF wr.w.err
              THEN /\ pc' = "done"
                   /\ err' = IF cfg.headersOnly THEN errs.header ELSE errs.rec
              ELSE /\ pc' = "loop"
                   /\ err' = err
    /\ UNCHANGED <<args, opened, errText, callerCfg, cfg, inputFileName, hashFuncs>>

\* ReadRecord in which ntHash upper-cases the bytes it is given a pointer to
ReadRecordNthashAlters(rec, f) ==
    /\ pc = "loop"
    /\ nread < MaxRecords
    /\ LET n == Normalize(rec.Seq.Seq, cfg.caseSensitive)
           s == IF \E i \in 1..Len(hashFuncs) : hashFuncs[i] = hn.nthash
                THEN ToUpper(n) ELSE n
           hs == [i \in 1..Len(hashFuncs) |-> getHashFunc(hashFuncs[i], s)]
           hexes == [i \in 1..Len(hs) |-> hs[i].hex]
           header == Header(cfg.noFileName, inputFileName,
                            JoinWith(hexes, <<ch.semi>>), rec.Name)
           wr == Write(writer, output, Printed(cfg.headersOnly, header, rec, s), f, 0)
       IN  /\ nread' = nread + 1
           /\ consumed' = Append(consumed, rec)
           /\ record' = rec
           /\ seq' = s
           /\ hashedSeqs' = hexes
           /\ modifiedHeader' = header
           /\ log' = log \o SelectSeq([i \in 1..Len(hs) |->
                                          IF hs[i].log THEN "Error" ELSE ""],
                                      LAMBDA m : m # "")
           /\ writer' = wr.w
           /\ output' = wr.out
           /\ IF wr.w.err
              THEN /\ pc' = "done"
                   /\ err' = IF cfg.headersOnly THEN errs.header ELSE errs.rec
              ELSE /\ pc' = "loop"
                   /\ err' = err
    /\ UNCHANGED <<args, opened, errText, callerCfg, cfg, inputFileName, hashFuncs>>

\* One iteration of the loop for a record the reader delivered.  f: which
\* underlying Write of this iteration fails (0: none).
ReadRecord(rec, f) ==
    /\ pc = "loop"
    /\ nread < MaxRecords
    /\ LET s == Normalize(rec.Seq.Seq, cfg.caseSensitive)
           hs == [i \in 1..Len(hashFuncs) |-> getHashFunc(hashFuncs[i], s)]
           hexes == [i \in 1..Len(hs) |-> hs[i].hex]
           header == Header(cfg.noFileName, inputFileName,
                            JoinWith(hexes, <<ch.semi>>), rec.Name)
           wr == Write(writer, output, Printed(cfg.headersOnly, header, rec, s), f, 0)
       IN  /\ nread' = nread + 1
           /\ consumed' = Append(consumed, rec)
           /\ record' = rec
           /\ seq' = s
           /\ hashedSeqs' = hexes
           /\ modifiedHeader' = header
           /\ log' = log \o SelectSeq([i \in 1..Len(hs) |->
                                          IF hs[i].log THEN "Error" ELSE ""],
                                      LAMBDA m : m # "")
           /\ writer' = wr.w
           /\ output' = wr.out
           /\ IF wr.w.err
              THEN /\ pc' = "done"
                   /\ err' = IF cfg.headersOnly THEN errs.header ELSE errs.rec
              ELSE /\ pc' = "loop"
                   /\ err' = err
    /\ UNCHANGED <<args, opened, errText, callerCfg, cfg, inputFileName, hashFuncs>>

\* ReadError that returns without the deferred Flush
ReadErrorNoFlush(sinkOK) ==
    /\ pc = "loop"
    /\ pc' = "done"
    /\ err' = errs.read
    /\ UNCHANGED <<args, opened, errText, callerCfg, cfg, inputFileName, hashFuncs,
                   nread, consumed, record, seq, hashedSeqs, modifiedHeader, log,
                   writer, output>>

\* ReadError that notes the error and goes on with the loop
ReadErrorContinues(sinkOK) ==
    /\ pc = "loop"
    /\ err = errs.none
    /\ pc' = "loop"
    /\ err' = errs.read
    /\ UNCHANGED <<args, opened, errText, callerCfg, cfg, inputFileName, hashFuncs,
                   nread, consumed, record, seq, hashedSeqs, modifiedHeader, log,
                   writer, output>>

\* reader.Read() fails with an error other than io.EOF: the function returns
\* it, and the deferred writer.Flush() runs
ReadError(sinkOK) ==
    /\ pc = "loop"
    /\ LET fl == Flush(writer, output, sinkOK)
       IN  /\ writer' = fl.w
           /\ output' = fl.out
    /\ pc' = "done"
    /\ err' = errs.read
    /\ UNCHANGED <<args, opened, errText, callerCfg, cfg, inputFileName, hashFuncs,
                   nread, consumed, record, seq, hashedSeqs, modifiedHeader, log>>

\* ReadEOF whose deferred Flush writes the buffer of the first Flush again
ReadEOFFlushesTwice(sinkOK) ==
    /\ pc = "loop"
    /\ LET fl == Flush(writer, output, sinkOK)
       IN  /\ writer' = fl.w
           /\ output' = IF fl.w.err THEN fl.out ELSE fl.out \o writer.buf
           /\ err' = IF fl.w.err THEN errs.flush ELSE errs.none
    /\ pc' = "done"
    /\ UNCHANGED <<args, opened, errText, callerCfg, cfg, inputFileName, hashFuncs,
                   nread, consumed, record, seq, hashedSeqs, modifiedHeader, log>>

\* reader.Read() returns io.EOF: the loop ends, the result is that of
\* writer.Flush(), and the deferred writer.Flush() runs after it
ReadEOF(sinkOK) ==
    /\ pc = "loop"
    /\ LET fl == Flush(writer, output, sinkOK)
           deferred == Flush(fl.w, fl.out, sinkOK)
       IN  /\ writer' = deferred.w
           /\ output' = deferred.out
           /\ err' = IF fl.w.err THEN errs.flush ELSE errs.none
    /\ pc' = "done"
    /\ UNCHANGED <<args, opened, errText, callerCfg, cfg, inputFileName, hashFuncs,
                   nread, consumed, record, seq, hashedSeqs, modifiedHeader, log>>

Next ==
    \/ \E readerOK \in BOOLEAN : Setup(readerOK)
    \/ \E rec \in Records, f \in 0..2 : ReadRecord(rec, f)
    \/ \E sinkOK \in BOOLEAN : ReadError(sinkOK)
    \/ \E sinkOK \in BOOLEAN : ReadEOF(sinkOK)

Spec == Init /\ [][Next]_vars

\* the steps that need no further record: the set-up and the read that ends
\* the stream, with io.EOF or with an error
Proceeds ==
    \/ \E readerOK \in BOOLEAN : Setup(readerOK)
    \/ \E sinkOK \in BOOLEAN : ReadError(sinkOK)
    \/ \E sinkOK \in BOOLEAN : ReadEOF(sinkOK)

\* the same runs of a program that keeps running on a finite stream: it is
\* sequential, its reads and writes return, and the read that ends the stream
\* comes.  One of these steps is possible whenever any step is, so this is
\* weak fairness of the program's steps.
SpecLive == Init /\ [][Next]_vars /\ WF_vars(Proceeds)

\* what run writes for --version and without an input name: "SeqHasher 1.1.1"
\* and a newline; the first two lines of the short usage text, "SeqHasher
\* v1.1.1" and "Usage: seqhasher [options] <input_file> [output_file]"
outText == [version |-> <<83, 101, 113, 72, 97, 115, 104, 101, 114, 32, 49, 46, 49, 46, 49, 10>>,
            usage |-> <<83, 101, 113, 72, 97, 115, 104, 101, 114, 32, 118, 49, 46, 49, 46, 49, 10, 85, 115, 97, 103, 101, 58, 32, 115, 101, 113, 104, 97, 115, 104, 101, 114, 32, 91, 111, 112, 116, 105, 111, 110, 115, 93, 32, 60, 105, 110, 112, 117, 116, 95, 102, 105, 108, 101, 62, 32, 91, 111, 117, 116, 112, 117, 116, 95, 102, 105, 108, 101, 93, 10>>]

\* run that does not look at showVersion
runIgnoresVersion(inOK, outOK) ==
    /\ pc = "run"
    /\ LET p == parseFlags(args.hash)
           c == [Config(args.headersOnly, p.hashTypes, args.noFileName,
                        args.caseSensitive, args.input, args.name)
                    EXCEPT !.outputFileName = args.output,
                           !.showVersion = args.version]
           toFile == args.output # <<>> /\ args.output # txt.stdin
           inFails == args.input # txt.stdin /\ ~inOK
           returns(e, msgText, out, streams) ==
               /\ pc' = "done"
               /\ err' = e
               /\ errText' = msgText
               /\ output' = out
               /\ opened' = streams
               /\ UNCHANGED <<callerCfg, cfg>>
       IN  IF ~p.ok THEN returns(errs.flags, p.err, output, opened)
           ELSE IF c.inputFileName = <<>>
           THEN returns(errs.none, <<>>, outText.usage, opened)
           ELSE IF inFails THEN returns(errs.input, <<>>, output, <<"input failed">>)
           ELSE IF toFile /\ ~outOK
           THEN returns(errs.output, <<>>, output, <<"input", "output failed">>)
           ELSE /\ pc' = "start"
                /\ callerCfg' = c
                /\ cfg' = c
                /\ opened' = IF toFile THEN <<"input", "output">> ELSE <<"input">>
                /\ UNCHANGED <<err, errText, output>>
    /\ UNCHANGED <<args, inputFileName, hashFuncs, nread, consumed, record, seq, hashedSeqs,
                   modifiedHeader, writer, log>>

\* run that goes on after a failed getInput or getOutput
runIgnoresOpenError(inOK, outOK) ==
    /\ pc = "run"
    /\ LET p == parseFlags(args.hash)
           c == [Config(args.headersOnly, p.hashTypes, args.noFileName,
                        args.caseSensitive, args.input, args.name)
                    EXCEPT !.outputFileName = args.output,
                           !.showVersion = args.version]
           toFile == args.output # <<>> /\ args.output # txt.stdin
           inFails == args.input # txt.stdin /\ ~inOK
           returns(e, msgText, out, streams) ==
               /\ pc' = "done"
               /\ err' = e
               /\ errText' = msgText
               /\ output' = out
               /\ opened' = streams
               /\ UNCHANGED <<callerCfg, cfg>>
       IN  IF ~p.ok THEN returns(errs.flags, p.err, output, opened)
           ELSE IF c.showVersion THEN returns(errs.none, <<>>, outText.version, opened)
           ELSE IF c.inputFileName = <<>>
           THEN returns(errs.none, <<>>, outText.usage, opened)
           ELSE /\ pc' = "start"
                /\ callerCfg' = c
                /\ cfg' = c
                /\ opened' = <<IF inFails THEN "input failed" ELSE "input">>
                                 \o (IF ~toFile THEN <<>>
                                     ELSE IF outOK THEN <<"output">>
                                     ELSE <<"output failed">>)
                /\ UNCHANGED <<err, errText, output>>
    /\ UNCHANGED <<args, inputFileName, hashFuncs, nread, consumed, record, seq, hashedSeqs,
                   modifiedHeader, writer, log>>

\* run() up to its call of processSequences.  inOK, outOK: os.Open and
\* os.Create succeed.
run(inOK, outOK) ==
    /\ pc = "run"
    /\ LET p == parseFlags(args.hash)
           c == [Config(args.headersOnly, p.hashTypes, args.noFileName,
                        args.caseSensitive, args.input, args.name)
                    EXCEPT !.outputFileName = args.output,
                           !.showVersion = args.version]
           toFile == args.output # <<>> /\ args.output # txt.stdin
           inFails == args.input # txt.stdin /\ ~inOK
           returns(e, msgText, out, streams) ==
               /\ pc' = "done"
               /\ err' = e
               /\ errText' = msgText
               /\ output' = out
               /\ opened' = streams
               /\ UNCHANGED <<callerCfg, cfg>>
       IN  IF ~p.ok THEN returns(errs.flags, p.err, output, opened)
           ELSE IF c.showVersion THEN returns(errs.none, <<>>, outText.version, opened)
           ELSE IF c.inputFileName = <<>>
           THEN returns(errs.none, <<>>, outText.usage, opened)
           ELSE IF inFails THEN returns(errs.input, <<>>, output, <<"input failed">>)
           ELSE IF toFile /\ ~outOK
           THEN returns(errs.output, <<>>, output, <<"input", "output failed">>)
           ELSE /\ pc' = "start"
                /\ callerCfg' = c
                /\ cfg' = c
                /\ opened' = IF toFile THEN <<"input", "output">> ELSE <<"input">>
                /\ UNCHANGED <<err, errText, output>>
    /\ UNCHANGED <<args, inputFileName, hashFuncs, nread, consumed, record, seq, hashedSeqs,
                   modifiedHeader, writer, log>>

\* the program from its command line on
InitRun ==
    /\ args \in RunArgs
    /\ opened = <<>>
    /\ callerCfg = Config(FALSE, <<>>, FALSE, FALSE, <<>>, <<>>)
    /\ cfg = callerCfg
    /\ pc = "run"
    /\ inputFileName = <<>>
    /\ hashFuncs = <<>>
    /\ nread = 0
    /\ consumed = <<>>
    /\ record = NoRecord
    /\ seq = <<>>
    /\ hashedSeqs = <<>>
    /\ modifiedHeader = <<>>
    /\ writer = [buf |-> <<>>, err |-> FALSE]
    /\ output = <<>>
    /\ log = <<>>
    /\ err = errs.none
    /\ errText = <<>>

NextRun ==
    \/ \E inOK \in BOOLEAN, outOK \in BOOLEAN : run(inOK, outOK)
    \/ \E readerOK \in BOOLEAN : Setup(readerOK)
    \/ \E rec \in Records \cup DescribedRecords, f \in 0..2 : ReadRecord(rec, f)
    \/ \E sinkOK \in BOOLEAN : ReadError(sinkOK)
    \/ \E sinkOK \in BOOLEAN : ReadEOF(sinkOK)

SpecRun == InitRun /\ [][NextRun]_vars

\* the normalization runs: one record with any raw sequence over NormBytes
InitNorm == InitWith(NormConfigs)

NextNorm ==
    \/ Setup(TRUE)
    \/ nread = 0 /\ \E rec \in NormRecords : ReadRecord(rec, 0)
    \/ ReadEOF(TRUE)

SpecNorm == InitNorm /\ [][NextNorm]_vars

-----------------------------------------------------------------------------
(* What the claims speak of *)

\* every byte handed to the writer that was not lost, in order
Emitted == output \o writer.buf

\* the lines of a text; a text that ends with a newline has an empty last line
Lines(text) == Split(text, ch.nl)

\* the last n bytes of a text
Last(text, n) == SubSeq(text, Len(text) - n + 1, Len(text))

\* whether a text ends with the given bytes
EndsWith(text, tail) == Len(tail) <= Len(text) /\ Last(text, Len(tail)) = tail

\* a text with its ASCII letters in upper case and every other byte unchanged
AsciiUpper(s) ==
    [i \in 1..Len(s) |-> IF InRange(s[i], 97, 122) THEN s[i] - 32 ELSE s[i]]

RECURSIVE StripWS(_)
\* a text without its whitespace characters, nothing else changed
StripWS(s) ==
    IF s = <<>> THEN <<>>
    ELSE LET d == DecodeRune(s)
             rest == StripWS(SubSeq(s, d.size + 1, Len(s)))
         IN  IF IsSpace(d.r) THEN rest ELSE SubSeq(s, 1, d.size) \o rest

\* the part of a path after its last slash
AfterLastSlash(path) ==
    LET at == {i \in 1..Len(path) : path[i] = ch.slash}
    IN  IF at = {} THEN path
        ELSE SubSeq(path, 1 + CHOOSE i \in at : \A j \in at : j <= i, Len(path))

\* the digests of a text under the hash functions of the run
Digests(text) == [i \in 1..Len(hashFuncs) |-> getHashFunc(hashFuncs[i], text).hex]

\* how often a byte occurs in a text
Count(text, b) == Cardinality({i \in 1..Len(text) : text[i] = b})

\* the fields of the header of the current record
HeaderFields ==
    (IF cfg.noFileName THEN <<>> ELSE <<inputFileName>>) \o hashedSeqs \o <<record.Name>>

-----------------------------------------------------------------------------
(* The claims *)

\* C1: the header of every record is the digests joined by ';', then ';' and
\* the record's name, preceded by the resolved source name and ';' unless
\* noFileName is set in processSequences; the fields are separated by exactly
\* one ';' each and nothing else is added.
C1_HeaderComposition ==
    nread > 0 =>
        /\ modifiedHeader =
              IF cfg.noFileName
              THEN JoinWith(hashedSeqs, <<ch.semi>>) \o <<ch.semi>> \o record.Name
              ELSE inputFileName \o <<ch.semi>> \o JoinWith(hashedSeqs, <<ch.semi>>)
                       \o <<ch.semi>> \o record.Name
        /\ Count(modifiedHeader, ch.semi) = Len(HeaderFields) - 1
        /\ Len(modifiedHeader) =
              Len(Concat(HeaderFields)) + Len(HeaderFields) - 1

C1_Witness ==
    /\ nread > 0
    /\ ~cfg.noFileName
    /\ cfg.inputFileName = txt.path
    /\ Len(hashedSeqs) = 2
    /\ seq # <<>>

\* C2: every record gets one digest per configured hash type, in the
\* configured order, the i-th being that of the i-th configured algorithm
\* (the name as given to --hash, surrounding blanks aside) over the normalized
\* sequence, and the header holds them joined by ';'.
C2_DigestPerAlgorithm ==
    nread > 0 =>
        /\ Len(hashedSeqs) = Len(callerCfg.hashTypes)
        /\ \A i \in 1..Len(hashedSeqs) :
              hashedSeqs[i] = getHashFunc(TrimSpace(callerCfg.hashTypes[i]), seq).hex

\* C3: without caseSensitive a sequence and its upper-cased form get the same
\* normalized bytes, hence the same digests, and the sequence line written is
\* that common text, in which no lower-case letter is left.
C3_CaseInsensitive ==
    (nread > 0 /\ ~cfg.caseSensitive) =>
        LET upper == Normalize(AsciiUpper(record.Seq.Seq), FALSE)
        IN  /\ seq = upper
            /\ hashedSeqs = Digests(upper)
            /\ \A i \in 1..Len(seq) : ~InRange(seq[i], 97, 122)
            /\ AsciiUpper(seq) = seq
            /\ Emitted = <<ch.gt>> \o modifiedHeader \o <<ch.nl>> \o upper \o <<ch.nl>>

C3_Witness ==
    /\ nread > 0
    /\ ~cfg.caseSensitive
    /\ record.Seq.Seq = <<97, 32, 65>>
    /\ seq = <<65, 65>>

\* C4: with caseSensitive the bytes hashed and written are the sequence with
\* its whitespace removed and nothing else changed, so a sequence with a
\* lower-case letter and its upper-cased form are hashed as different bytes.
C4_CaseSensitive ==
    (nread > 0 /\ cfg.caseSensitive) =>
        LET raw == record.Seq.Seq
        IN  /\ seq = StripWS(raw)
            /\ hashedSeqs = Digests(StripWS(raw))
            /\ Emitted = <<ch.gt>> \o modifiedHeader \o <<ch.nl>> \o StripWS(raw)
                            \o <<ch.nl>>
            /\ AsciiUpper(raw) # raw => Normalize(AsciiUpper(raw), TRUE) # seq

C4_Witness ==
    /\ nread > 0
    /\ cfg.caseSensitive
    /\ record.Seq.Seq = <<97, 32, 65>>
    /\ seq = <<97, 65>>

\* C5: normalization removes the whitespace characters at every position and
\* keeps the other bytes in order, so a sequence and the same sequence without
\* its whitespace get the same normalized bytes, digests and sequence line,
\* and no whitespace character is left in them.
C5_WhitespaceRemoved ==
    nread > 0 =>
        LET bare == StripWS(record.Seq.Seq)
        IN  /\ cfg.caseSensitive => seq = bare
            /\ seq = Normalize(bare, cfg.caseSensitive)
            /\ hashedSeqs = Digests(Normalize(bare, cfg.caseSensitive))
            /\ StripWS(seq) = seq

\* C6: with headersOnly every record, FASTA or FASTQ, adds exactly one line to
\* the output: the composed header and a newline, with no marker before it
\* and no sequence, '+' or quality line after it.
C6_HeadersOnly ==
    (pc = "loop" /\ nread > 0 /\ cfg.headersOnly) =>
        LET L == Lines(Emitted)
        IN  /\ Len(L) = nread + 1
            /\ L[nread + 1] = <<>>
            /\ L[nread] = modifiedHeader
            /\ EndsWith(Emitted, modifiedHeader \o <<ch.nl>>)
            /\ \A k \in 1..nread : L[k] # <<>> /\ L[k][1] \notin {ch.gt, ch.at}

C6_Witness ==
    /\ pc = "loop"
    /\ nread = 2
    /\ cfg.headersOnly
    /\ record.Seq.Qual # <<>>
    /\ output # <<>>

\* C7: without headersOnly a FASTA record is written as '>', the header, a
\* newline, the normalized sequence and a newline; the sequence line is the
\* very text that was hashed, so reading the output back line by line gives
\* the hashed bytes.
C7_FastaRecord ==
    (pc = "loop" /\ nread > 0 /\ ~cfg.headersOnly /\ record.Seq.Qual = <<>>) =>
        LET L == Lines(Emitted)
            n == Len(L)
        IN  /\ EndsWith(Emitted, <<ch.gt>> \o modifiedHeader \o <<ch.nl>> \o seq
                                    \o <<ch.nl>>)
            /\ n = 2 * nread + 1
            /\ L[n] = <<>>
            /\ L[n - 2] = <<ch.gt>> \o modifiedHeader
            /\ L[n - 1] = seq
            /\ hashedSeqs = Digests(L[n - 1])
            /\ seq = Normalize(record.Seq.Seq, cfg.caseSensitive)

C7_Witness ==
    /\ pc = "loop"
    /\ nread = 2
    /\ ~cfg.headersOnly
    /\ record.Seq.Qual = <<>>
    /\ record.Seq.Seq = <<97, 32, 65>>
    /\ seq = <<65, 65>>
    /\ output # <<>>

\* C8: without headersOnly a FASTQ record is written as '@', the header, a
\* newline, the normalized sequence, a newline, '+', a newline, the quality
\* string of the record unchanged and a newline.
C8_FastqRecord ==
    (pc = "loop" /\ nread > 0 /\ ~cfg.headersOnly /\ record.Seq.Qual # <<>>) =>
        EndsWith(Emitted, <<ch.at>> \o modifiedHeader \o <<ch.nl>> \o seq \o <<ch.nl>>
                             \o <<ch.plus, ch.nl>> \o record.Seq.Qual \o <<ch.nl>>)

\* C9 as stated: the resolved source name is the override if one is set, else
\* "stdin" for the input '-', else the base name of the input file.
C9_SourceNameStdin ==
    pc = "loop" =>
        inputFileName =
            IF callerCfg.nameOverride # <<>> THEN callerCfg.nameOverride
            ELSE IF callerCfg.inputFileName = txt.stdin
                 THEN <<115, 116, 100, 105, 110>>
            ELSE AfterLastSlash(callerCfg.inputFileName)

\* C9 as amended: the resolved source name is the override if one is set, else
\* '-' itself for the input '-', which is then kept out of every header, else
\* the part of the input file's path after its last slash, suffix included.
C9_SourceName ==
    pc = "loop" =>
        /\ inputFileName =
              IF callerCfg.nameOverride # <<>> THEN callerCfg.nameOverride
              ELSE IF callerCfg.inputFileName = txt.stdin THEN txt.stdin
              ELSE AfterLastSlash(callerCfg.inputFileName)
        /\ (callerCfg.nameOverride = <<>> /\ callerCfg.inputFileName = txt.stdin) =>
              /\ cfg.noFileName
              /\ nread > 0 =>
                    modifiedHeader = JoinWith(hashedSeqs \o <<record.Name>>, <<ch.semi>>)
        /\ (nread > 0 /\ ~cfg.noFileName) =>
              SubSeq(modifiedHeader, 1, Len(inputFileName) + 1)
                  = inputFileName \o <<ch.semi>>

C9_Witness ==
    /\ pc = "loop"
    /\ nread > 0
    /\ callerCfg.nameOverride = <<>>
    /\ callerCfg.inputFileName = txt.path
    /\ ~callerCfg.noFileName
    /\ inputFileName = <<97, 46, 103, 122>>

\* C10: for input from stdin without --nofilename, the header of every record
\* is digests;name when no name override is given, and override;digests;name
\* when one is given.
C10_StdinHeader ==
    (nread > 0 /\ callerCfg.inputFileName = txt.stdin /\ ~callerCfg.noFileName) =>
        modifiedHeader =
            IF callerCfg.nameOverride = <<>>
            THEN JoinWith(hashedSeqs \o <<record.Name>>, <<ch.semi>>)
            ELSE JoinWith(<<callerCfg.nameOverride>> \o hashedSeqs \o <<record.Name>>,
                          <<ch.semi>>)

C10_Witness ==
    /\ nread > 0
    /\ callerCfg.inputFileName = txt.stdin
    /\ ~callerCfg.noFileName
    /\ callerCfg.nameOverride = <<>>
    /\ Len(hashedSeqs) = 2
    /\ seq # <<>>

\* whether a text holds the given bytes somewhere
Contains(s, part) ==
    \E i \in 1..(Len(s) - Len(part) + 1) : SubSeq(s, i, i + Len(part) - 1) = part

\* the entries of the --hash value that name no supported algorithm
InvalidEntries ==
    LET hts == Split(args.hash, ch.comma)
    IN  {i \in 1..Len(hts) :
            TrimSpace(hts[i]) \notin {hn.sha1, hn.sha3, hn.md5, hn.xxhash, hn.cityhash,
                                      hn.murmur3, hn.nthash, hn.blake3}}

\* C11: a --hash value with an entry outside the supported set, at any place
\* of the list, makes run return the "Invalid hash type" error before the
\* input is opened and before any record is read or written; the message
\* names the first invalid entry and lists the eight supported names.
C11_InvalidHashRejected ==
    (pc # "run" /\ InvalidEntries # {}) =>
        LET hts == Split(args.hash, ch.comma)
            first == CHOOSE i \in InvalidEntries : \A j \in InvalidEntries : i <= j
        IN  /\ pc = "done"
            /\ err = errs.flags
            /\ opened = <<>>
            /\ nread = 0
            /\ Emitted = <<>>
            /\ log = <<>>
            /\ SubSeq(errText, 1, Len(msg.invalid) + Len(hts[first]) + 1)
                  = msg.invalid \o hts[first] \o <<ch.dot>>
            /\ \A k \in 1..8 : Contains(errText, supportedHashTypes[k])
            /\ \A name \in {hn.sha1, hn.sha3, hn.md5, hn.xxhash, hn.cityhash,
                             hn.murmur3, hn.nthash, hn.blake3} :
                  Contains(errText, name)

C11_Witness ==
    /\ pc = "done"
    /\ err = errs.flags
    /\ args.hash = hn.sha1 \o <<ch.comma>> \o <<105, 110, 118, 97, 108, 105, 100>>
    /\ args.input = txt.path
    /\ ~args.version

\* C12: a record whose sequence is empty after normalization gets the empty
\* string as the digest of every configured algorithm and one logged warning
\* per algorithm; its header is composed and written like any other, the loop
\* goes on to the next read, and the run that then reaches the end of the
\* stream returns no error.
C12_EmptySequence ==
    [][ /\ (nread' = nread + 1 /\ seq' = <<>>) =>
              /\ Len(hashedSeqs') = Len(cfg.hashTypes)
              /\ \A i \in 1..Len(hashedSeqs') : hashedSeqs'[i] = <<>>
              /\ Len(log') = Len(log) + Len(cfg.hashTypes)
              /\ modifiedHeader' =
                    JoinWith((IF cfg.noFileName THEN <<>> ELSE <<inputFileName>>)
                                 \o hashedSeqs' \o <<record'.Name>>, <<ch.semi>>)
              /\ ~writer'.err =>
                    /\ pc' = "loop"
                    /\ err' = errs.none
                    /\ Emitted' = Emitted \o
                          (IF cfg.headersOnly THEN modifiedHeader' \o <<ch.nl>>
                           ELSE <<ch.gt>> \o modifiedHeader' \o <<ch.nl, ch.nl>>)
        /\ (pc = "loop" /\ nread > 0 /\ seq = <<>> /\ pc' = "done" /\ nread' = nread
                /\ ~writer'.err /\ err' # errs.read) =>
              /\ err' = errs.none
              /\ output' = Emitted
      ]_vars

C12_Witness ==
    /\ pc = "done"
    /\ err = errs.none
    /\ nread = 2
    /\ Len(hashFuncs) = 2
    /\ Len(log) = 2
    /\ record.Seq.Seq = <<65>>
    /\ hashedSeqs[1] # <<>>
    /\ ~cfg.headersOnly
    /\ Contains(output, <<ch.semi, ch.semi>>)

\* C13: a parser error other than end-of-stream on one record does not end
\* the run: processSequences never returns the error of a read.
C13_ParseErrorContinues ==
    ~(pc = "done" /\ err = errs.read)

\* C14: when the parser cannot be created, processSequences returns the
\* "Failed to create reader" error with the parser's "invalid FASTA/Q format"
\* in it, before any record is read, hashed or logged, and no byte is written
\* to the output or left in the writer.
C14_ReaderCreationFailure ==
    /\ err = errs.reader =>
          /\ pc = "done"
          /\ nread = 0
          /\ record = NoRecord
          /\ hashedSeqs = <<>>
          /\ log = <<>>
          /\ output = <<>>
          /\ writer.buf = <<>>
          /\ Contains(errText, <<105, 110, 118, 97, 108, 105, 100, 32, 70, 65, 83, 84, 65, 47, 81, 32, 102, 111, 114, 109, 97, 116>>)
    /\ (pc = "done" /\ hashFuncs = <<>>) => err = errs.reader

C14_Witness ==
    /\ pc = "done"
    /\ err = errs.reader
    /\ callerCfg.inputFileName = txt.path
    /\ callerCfg.hashTypes = <<hn.sha1>>
    /\ ~callerCfg.noFileName

\* whether a text is the beginning of another
IsPrefix(a, b) == Len(a) <= Len(b) /\ SubSeq(b, 1, Len(a)) = a

\* the entry of a record in the output of this run: the header line, with '>'
\* and followed by the sequence line unless headersOnly
EntryOf(rec) ==
    LET s == Normalize(rec.Seq.Seq, cfg.caseSensitive)
        h == JoinWith((IF cfg.noFileName THEN <<>> ELSE <<inputFileName>>)
                          \o Digests(s) \o <<rec.Name>>, <<ch.semi>>)
    IN  IF cfg.headersOnly THEN h \o <<ch.nl>>
        ELSE <<ch.gt>> \o h \o <<ch.nl>> \o s \o <<ch.nl>>

\* the entries of a list of records, one after the other
EntriesOf(recs) == Concat([i \in 1..Len(recs) |-> EntryOf(recs[i])])

\* C15: a failed write of one record does not end the run: processSequences
\* never returns the error of a header or record write; the only write error
\* it returns is that of the final flush.
C15_WriteErrorContinues ==
    pc = "done" => err \notin {errs.header, errs.rec}

\* C16: after a run that reached the end of the stream and returned no error,
\* the output is the entries of the records read, one per record, each once,
\* in the order they were read, and nothing is left in the writer.
C16_OneToOneInOrder ==
    (pc = "done" /\ err = errs.none /\ hashFuncs # <<>>) =>
        /\ Len(consumed) = nread
        /\ output = EntriesOf(consumed)
        /\ writer.buf = <<>>
        /\ Len(Lines(output)) = 1 + (IF cfg.headersOnly THEN nread ELSE 2 * nread)
        /\ \A i \in 1..nread :
              LET line == Lines(output)[IF cfg.headersOnly THEN i ELSE 2 * i - 1]
              IN  EndsWith(line, <<ch.semi>> \o consumed[i].Name)

C16_Witness ==
    /\ pc = "done"
    /\ err = errs.none
    /\ nread = 2
    /\ consumed[1].Name # consumed[2].Name
    /\ consumed[1].Seq.Seq = <<97, 32, 65>>
    /\ ~cfg.headersOnly
    /\ Len(output) > BufSize

\* C17 as stated: after a run that ended with an error, the output is exactly
\* the entries of the records whose write returned no error, complete and in
\* order.
C17_PartialOutputExact ==
    (pc = "done" /\ err # errs.none) =>
        LET k == IF err \in {errs.header, errs.rec} THEN nread - 1 ELSE nread
        IN  output = EntriesOf(SubSeq(consumed, 1, k))

\* C17 as amended: after a run that ended with an error, the output is a
\* beginning of the entries of the records read, in order; when the sink never
\* failed (the parser could not be created, or a read failed), it is exactly
\* the entries of all the records read, and the writer is empty.
C17_PartialOutput ==
    (pc = "done" /\ err # errs.none) =>
        /\ IsPrefix(output, EntriesOf(consumed))
        /\ ~writer.err =>
              /\ err \in {errs.reader, errs.read}
              /\ output = EntriesOf(consumed)
              /\ Len(consumed) = nread
              /\ writer.buf = <<>>

C17_Witness ==
    /\ pc = "done"
    /\ err = errs.read
    /\ nread = 2
    /\ ~writer.err
    /\ ~cfg.headersOnly
    /\ Len(output) > BufSize
    /\ output = EntriesOf(consumed)

\* C18: normalization is idempotent: the normalized sequence of a record is
\* left unchanged by a second normalization, with and without caseSensitive,
\* so its digests are those of the twice normalized sequence.
C18_Idempotent ==
    nread > 0 =>
        /\ Normalize(seq, cfg.caseSensitive) = seq
        /\ Digests(Normalize(seq, cfg.caseSensitive)) = hashedSeqs

\* C19: the digests of a record are those of its normalized sequence under
\* the configured hash types and of nothing else: a record whose normalized
\* sequence equals that of the record before it gets the same digests,
\* whatever its name and its place in the stream.
C19_DigestOfSequenceOnly ==
    [][ nread' = nread + 1 =>
          /\ hashedSeqs' =
                [i \in 1..Len(hashFuncs) |-> getHashFunc(hashFuncs[i], seq').hex]
          /\ (nread > 0 /\ seq' = seq) => hashedSeqs' = hashedSeqs
      ]_vars

C19_Witness ==
    /\ nread = 2
    /\ consumed[1].Name # consumed[2].Name
    /\ consumed[1].Seq.Seq # consumed[2].Seq.Seq
    /\ Normalize(consumed[1].Seq.Seq, cfg.caseSensitive) = seq
    /\ seq = <<65, 65>>
    /\ Len(hashedSeqs) = 2
    /\ ~cfg.noFileName

\* the number of hex digits of the digest of each algorithm
HexWidth(hashType) ==
    CASE hashType = hn.sha1 -> 40
      [] hashType = hn.sha3 -> 128
      [] hashType = hn.md5 -> 32
      [] hashType = hn.xxhash -> 16
      [] hashType = hn.cityhash -> 32
      [] hashType = hn.murmur3 -> 32
      [] hashType = hn.nthash -> 16
      [] hashType = hn.blake3 -> 64

\* the characters 0-9 and a-f
IsLowerHex(c) == InRange(c, 48, 57) \/ InRange(c, 97, 102)

\* C20: for a record with a non-empty normalized sequence, the digest of each
\* of the eight algorithms is made of lower-case hex digits only and has the
\* width of the algorithm: sha1 40, sha3 128, md5 32, xxhash 16, cityhash 32,
\* murmur3 32, nthash 16, blake3 64; a 64-bit value with zero high bytes is
\* padded to its width and the digest of nthash is never shorter or empty.
C20_DigestWidths ==
    (nread > 0 /\ seq # <<>>) =>
        \A i \in 1..Len(hashFuncs) :
            hashFuncs[i] \in {hn.sha1, hn.sha3, hn.md5, hn.xxhash, hn.cityhash,
                              hn.murmur3, hn.nthash, hn.blake3} =>
                /\ Len(hashedSeqs[i]) = HexWidth(hashFuncs[i])
                /\ \A j \in 1..Len(hashedSeqs[i]) : IsLowerHex(hashedSeqs[i][j])

C20_Witness ==
    /\ nread > 0
    /\ seq = <<65>>
    /\ hashFuncs = <<hn.sha3, hn.cityhash>>
    /\ Len(hashedSeqs[1]) = 128
    /\ SubSeq(hashedSeqs[2], 1, 4) = <<48, 48, 48, 48>>

\* C21 as stated: the last field of the header is the record's header token
\* up to its first whitespace, as it stands.
C21_IdentifierToken ==
    nread > 0 =>
        modifiedHeader =
            JoinWith((IF cfg.noFileName THEN <<>> ELSE <<inputFileName>>)
                         \o hashedSeqs \o <<ID(record.Name)>>, <<ch.semi>>)

\* C21 as amended: the last field of the header is the record's whole header
\* line, description included, as it stands: a ';' or a blank in it is
\* neither escaped nor removed.
C21_IdentifierName ==
    nread > 0 =>
        /\ modifiedHeader =
              JoinWith((IF cfg.noFileName THEN <<>> ELSE <<inputFileName>>)
                           \o hashedSeqs \o <<record.Name>>, <<ch.semi>>)
        /\ EndsWith(modifiedHeader, <<ch.semi>> \o record.Name)
        /\ Count(modifiedHeader, ch.semi) =
              Len(HeaderFields) - 1 + Count(Concat(HeaderFields), ch.semi)

C21_Witness ==
    /\ nread > 0
    /\ record.Name = <<97, 59, 98, 32, 99>>
    /\ ID(record.Name) = <<97, 59, 98>>
    /\ seq # <<>>
    /\ ~cfg.headersOnly
    /\ Contains(Emitted, record.Name \o <<ch.nl>>)

C23_OpenErrors ==
    LET failed == {i \in 1..Len(opened) : opened[i] \in {"input failed", "output failed"}}
    IN  /\ failed # {} =>
              /\ pc = "done"
              /\ err = IF opened[1] = "input failed" THEN errs.input ELSE errs.output
              /\ nread = 0
              /\ consumed = <<>>
              /\ hashFuncs = <<>>
              /\ modifiedHeader = <<>>
              /\ writer.buf = <<>>
              /\ output = <<>>
              /\ log = <<>>
        /\ err \in {errs.input, errs.output} => failed # {}

C23_Witness ==
    /\ pc = "done"
    /\ err = errs.output
    /\ opened = <<"input", "output failed">>
    /\ args.input = txt.path
    /\ args.output = txt.out

\* C24: each iteration takes one record through the whole cycle: when it is
\* read every earlier record is completely in the writer, it is normalized,
\* hashed by every configured algorithm, and only the entry composed from
\* these digests is written; once the run is done nothing is read, hashed or
\* written any more.
C24_RecordCycle ==
    [][ /\ nread' = nread + 1 =>
              /\ pc = "loop"
              /\ Emitted = EntriesOf(consumed)
              /\ consumed' = Append(consumed, record')
              /\ seq' = Normalize(record'.Seq.Seq, cfg.caseSensitive)
              /\ Len(hashedSeqs') = Len(cfg.hashTypes)
              /\ hashedSeqs' = Digests(seq')
              /\ modifiedHeader' =
                    JoinWith((IF cfg.noFileName THEN <<>> ELSE <<inputFileName>>)
                                 \o hashedSeqs' \o <<record'.Name>>, <<ch.semi>>)
              /\ IsPrefix(Emitted', Emitted \o EntryOf(record'))
              /\ ~writer'.err =>
                    /\ Emitted' = Emitted \o EntryOf(record')
                    /\ Contains(EntryOf(record'), modifiedHeader' \o <<ch.nl>>)
                    /\ pc' = "loop"
        /\ pc = "done" => UNCHANGED vars
        /\ pc' = "loop" => Emitted' = EntriesOf(consumed')
      ]_vars

C24_Witness ==
    /\ pc = "done"
    /\ err = errs.none
    /\ nread = 2
    /\ Len(hashedSeqs) = 2
    /\ hashedSeqs[2] # <<>>
    /\ consumed[1].Seq.Seq # consumed[2].Seq.Seq
    /\ output = EntriesOf(consumed)

\* C25: the record loop ends: every step taken in the loop either ends the
\* run or consumes one record of the finite stream, so that no read is tried
\* again for ever, and every run reaches its end, with or without an error.
C25_Terminates ==
    /\ [][pc = "loop" => (pc' = "done" \/ (pc' = "loop" /\ nread' = nread + 1))]_vars
    /\ <>(pc = "done")

C25_Witness ==
    /\ pc = "done"
    /\ err = errs.read
    /\ nread = 2
    /\ seq = <<>>
    /\ log # <<>>

\* C26: the hash types of a configuration that parseFlags returned are
\* exactly supported names, free of surrounding blanks, and at least one, so
\* that every digest is that of the algorithm asked for.
C26_HashTypesSupported ==
    pc \in {"start", "loop"} =>
        /\ callerCfg.hashTypes # <<>>
        /\ \A i \in 1..Len(callerCfg.hashTypes) :
              callerCfg.hashTypes[i] \in {hn.sha1, hn.sha3, hn.md5, hn.xxhash,
                                          hn.cityhash, hn.murmur3, hn.nthash, hn.blake3}

\* C27: processSequences never changes the configuration of its caller, and
\* from the first read on its own copy of the configuration, the resolved
\* source name and the list of hash functions stay as the set-up left them:
\* the caller's values, but for noFileName turned on for stdin without a name.
C27_ConfigFixed ==
    [][ /\ pc # "run" => callerCfg' = callerCfg
        /\ pc = "loop" =>
              /\ cfg' = cfg
              /\ inputFileName' = inputFileName
              /\ hashFuncs' = hashFuncs
              /\ hashFuncs = callerCfg.hashTypes
              /\ cfg.headersOnly = callerCfg.headersOnly
              /\ cfg.caseSensitive = callerCfg.caseSensitive
              /\ cfg.hashTypes = callerCfg.hashTypes
              /\ cfg.noFileName =
                    (callerCfg.noFileName
                        \/ (callerCfg.nameOverride = <<>>
                               /\ callerCfg.inputFileName = txt.stdin))
      ]_vars

C27_Witness ==
    /\ pc = "loop"
    /\ nread = 2
    /\ cfg # callerCfg
    /\ ~callerCfg.noFileName
    /\ cfg.noFileName
    /\ Emitted = EntriesOf(consumed)

\* C28: the buffer of the parsed record is left as the parser delivered it:
\* the normalized sequence is new data, also when it has the same bytes (no
\* whitespace and, without caseSensitive, no lower-case letter).
C28_RecordUntouched ==
    nread > 0 =>
        /\ record = consumed[nread]
        /\ seq = Normalize(record.Seq.Seq, cfg.caseSensitive)
        /\ (cfg.caseSensitive /\ StripWS(record.Seq.Seq) = record.Seq.Seq) =>
              seq = record.Seq.Seq

C28_Witness ==
    /\ nread > 0
    /\ ~cfg.caseSensitive
    /\ record.Seq.Seq = <<97, 9, 97>>
    /\ record = consumed[1]
    /\ seq = <<65, 65>>

\* C29: the normalized sequence and the sequence line written are those of
\* the raw sequence and caseSensitive alone, whatever the list of hash types,
\* and every hash function of the list is given these same bytes.
C29_NormalizationApart ==
    [][ nread' = nread + 1 =>
          LET norm == IF cfg.caseSensitive THEN StripWS(record'.Seq.Seq)
                      ELSE AsciiUpper(StripWS(record'.Seq.Seq))
          IN  /\ seq' = norm
              /\ \A i \in 1..Len(hashFuncs) :
                    hashedSeqs'[i] = getHashFunc(hashFuncs[i], seq').hex
              /\ (~writer'.err /\ ~cfg.headersOnly) =>
                    EndsWith(Emitted', <<ch.nl>> \o seq' \o <<ch.nl>>)
      ]_vars

C29_Witness ==
    /\ nread > 0
    /\ cfg.caseSensitive
    /\ hashFuncs = <<hn.nthash, hn.md5>>
    /\ seq = <<97, 65>>
    /\ ~cfg.headersOnly
    /\ ~writer.err

\* C30: when the caller sets noFileName the header is the digests and the
\* record's name, and a name override appears nowhere in what is written,
\* for a file and for stdin alike; when noFileName is not set and a name
\* override is given, the override is the first field of the header.
C30_NoFileNameFirst ==
    nread > 0 =>
        /\ callerCfg.noFileName =>
              /\ modifiedHeader = JoinWith(hashedSeqs \o <<record.Name>>, <<ch.semi>>)
              /\ callerCfg.nameOverride # <<>> =>
                    ~Contains(Emitted, callerCfg.nameOverride)
        /\ (~callerCfg.noFileName /\ callerCfg.nameOverride # <<>>) =>
              /\ IsPrefix(callerCfg.nameOverride \o <<ch.semi>>, modifiedHeader)
              /\ modifiedHeader =
                    JoinWith(<<callerCfg.nameOverride>> \o hashedSeqs
                                 \o <<record.Name>>, <<ch.semi>>)

C30_Witness ==
    /\ nread = 2
    /\ callerCfg.noFileName
    /\ callerCfg.nameOverride = txt.name
    /\ callerCfg.inputFileName = txt.path
    /\ ~cfg.headersOnly
    /\ ~writer.err
    /\ seq # <<>>

====
